---------------------------- MODULE Spec2Model ----------------------------
(***************************************************************************)
(* The asynchronous message relay of andy/messaging/messaging.py.          *)
(*                                                                         *)
(* Text is modelled as sequences of one-character strings, so that         *)
(* decode()[:-1], split(':', 1) and the f-string that rebuilds a frame are *)
(* computed the way the code computes them.  Every coroutine is a process  *)
(* whose position is recorded at its await points: asyncio runs one task   *)
(* at a time and switches tasks only at an await that suspends, so each    *)
(* action is the code between two such awaits.                             *)
(*                                                                         *)
(* The module also holds the Client of the same file, Pingable and         *)
(* compare_dicts of andy/pingable.py, Device of andy/visa/comms.py and     *)
(* ThreadedQueue of andy/threaded_queue.py, each with its own variables    *)
(* and its own specification.                                              *)
(***************************************************************************)
EXTENDS Integers, Sequences, FiniteSets, TLC

(* ------------------------------ bounds -------------------------------- *)
\* connections the server accepts during one run
NConn == 2
\* data frames enqueued during one run
MaxSend == 2
\* calls of remove_client during one run
MaxRemove == 1
\* calls of Client.send and Client.receive during one run
MaxCalls == 3
\* chunks the server side delivers to the client during one run
MaxFeed == 2
\* entries the ignore list of a Pingable holds during one run
MaxIgnore == 3
\* calls of Device.send during one run
MaxVisa == 2
\* calls of ThreadedQueue.add and ThreadedQueue.remove during one run
MaxRequests == 3
\* calls of ThreadedQueue.get during one run
MaxGets == 2

Conns == 1..NConn

(* ------------------------------- text --------------------------------- *)
NL == "\n"
COLON == ":"

\* code point of a character (str comparison in sorted() is by code point)
Ord(ch) ==
    CASE ch = NL -> 10
      [] ch = COLON -> 58
      [] ch = "a" -> 97
      [] ch = "b" -> 98
      [] ch = "g" -> 103
      [] ch = "h" -> 104
      [] ch = "i" -> 105
      [] ch = "y" -> 121

\* s < t for two str values
StrLess(s, t) ==
    \/ \E i \in 1..Len(s) :
          /\ i <= Len(t)
          /\ SubSeq(s, 1, i - 1) = SubSeq(t, 1, i - 1)
          /\ Ord(s[i]) < Ord(t[i])
    \/ /\ Len(s) < Len(t)
       /\ s = SubSeq(t, 1, Len(s))

\* s[:-1]
DropLast(s) == SubSeq(s, 1, Len(s) - 1)

\* positions of ':' in s
Colons(s) == {i \in 1..Len(s) : s[i] = COLON}

HasColon(s) == Colons(s) # {}

\* (had the code used rsplit: the last colon)
SplitAtLast(s) == CHOOSE i \in Colons(s) : \A j \in Colons(s) : j <= i
\* the position str.split(':', 1) splits at: the first colon
SplitAt(s) == CHOOSE i \in Colons(s) : \A j \in Colons(s) : i <= j

\* msg.split(':', 1) of a msg that holds a colon: <<target_user, message>>
Split(s) == <<SubSeq(s, 1, SplitAt(s) - 1), SubSeq(s, SplitAt(s) + 1, Len(s))>>

\* f'{name}:{message}'
Frame(name, message) == name \o <<COLON>> \o message

(* --------------------------- client input ----------------------------- *)
\* first lines a peer may send: "a\n", "b\n", or the empty line "\n"
HandshakeLines == { <<"a", NL>>, <<"b", NL>>, <<NL>> }

\* what the first readline returns when the peer closes before it sent a
\* newline: b'' or the cut-off b'a'
HandshakeEnds == { <<>>, <<"a">> }

\* data lines a peer may send: "b:h:i\n" and "a:y\n"
DataLines ==
    { <<"b", COLON, "h", COLON, "i", NL>>,
      <<"a", COLON, "y", NL>> }

\* what readline returns when the peer closes in the middle of a data line:
\* "a:y" cut off before its newline
CutOffLines == { <<"a", COLON, "y">> }

\* lines without a colon
GarbageLines == { <<"g", NL>> }

\* names an administrator may pass to remove_client
RemoveNames == { <<"a">>, <<"b">> }

(* ------------------------------- state -------------------------------- *)
VARIABLES
    message_queue,  \* Server.message_queue: name -> index of its Queue in queues
    queues,         \* every asyncio.Queue created: [items, getters]
    hs,             \* position of each proc_client
    client,         \* proc_client's local client (the bound name)
    wr,             \* position of each _write task
    wq,             \* the Queue whose get() a _write task is inside
    must_cancel,    \* write_task.cancel() was requested and not yet delivered
    out,            \* what _write wrote to each connection's stream
    sent,           \* history: every message put, in put order
    evicted,        \* history: names removed and not referenced since
    nremoved,       \* history: number of remove_client calls
    closes          \* times each connection's transport was told to close

\* the state of the Client object of lines 109-167 and of its stream
VARIABLES
    cl_conn,        \* "none": _reader and _writer are None; "open": connect() set them
    cl_buffer,      \* StreamReader buffer: characters received and not yet read
    cl_end,         \* the stream: "open", "eof" (feed_eof), "exc" (set_exception)
    cl_wire,        \* what send() wrote and flushed to the transport
    cl_calls,       \* history: the calls of send() and receive() with their results
    cl_fed          \* history: the chunks the server side delivered

\* the state of a Pingable object (pingable.py lines 13-14) and the arguments
\* and result of a compare_dicts call (lines 169-199)
VARIABLES
    retries,        \* Pingable._retries
    ip_ignore_list, \* Pingable._ip_ignore_list
    ignore_read,    \* history: what the last read of ip_ignore_list returned
    dict_1,         \* first argument of compare_dicts
    dict_2,         \* second argument of compare_dicts
    differences,    \* what compare_dicts returned
    compared        \* history: compare_dicts has returned

\* the state of a visa Device object (comms.py lines 65-77) and its instrument
VARIABLES
    dev_present,    \* an instrument is attached: list_resources() is not empty
    dev_device,     \* Device._device: "None" or "open"
    dev_timeout,    \* timeout of the open resource, in ms
    dev_log,        \* what was issued to the instrument: [op, cmd]
    dev_calls       \* history: the calls of send() with their results

\* the state of a ThreadedQueue object (threaded_queue.py lines 10-14) and of
\* its action thread
VARIABLES
    tq_queue,        \* ThreadedQueue.queue
    tq_action_queue, \* ThreadedQueue.action_queue
    tq_pc,           \* where the action thread is: "loop" (line 35), "sleep"
                     \* (line 37), "add" (line 47), "remove" (line 52), "dead"
    tq_action,       \* action_thread's local action: the tuple it popped
    tq_requests,     \* history: the actions add() and remove() appended
    tq_done,         \* history: number of actions the thread completed
    tq_gets          \* history: the calls of get() with their results

relayVars == <<message_queue, queues, hs, client, wr, wq, must_cancel, out,
               sent, evicted, nremoved, closes>>
clientVars == <<cl_conn, cl_buffer, cl_end, cl_wire, cl_calls, cl_fed>>
pingVars == <<retries, ip_ignore_list, ignore_read>>
dictVars == <<dict_1, dict_2, differences, compared>>
visaVars == <<dev_present, dev_device, dev_timeout, dev_log, dev_calls>>
tqVars == <<tq_queue, tq_action_queue, tq_pc, tq_action, tq_requests, tq_done,
            tq_gets>>

vars == <<relayVars, clientVars, pingVars, dictVars, visaVars, tqVars>>

\* the variables each component leaves alone
notRelay == <<clientVars, pingVars, dictVars, visaVars, tqVars>>
notClient == <<relayVars, pingVars, dictVars, visaVars, tqVars>>
notPing == <<relayVars, clientVars, dictVars, visaVars, tqVars>>
notDict == <<relayVars, clientVars, pingVars, visaVars, tqVars>>
notVisa == <<relayVars, clientVars, pingVars, dictVars, tqVars>>
notQueue == <<relayVars, clientVars, pingVars, dictVars, visaVars>>

\* the empty dict
EmptyDict == [n \in {} |-> 0]

\* Client.__init__ (lines 121-125): nothing is connected
InitClient ==
    /\ cl_conn = "none"
    /\ cl_buffer = <<>>
    /\ cl_end = "open"
    /\ cl_wire = <<>>
    /\ cl_calls = <<>>
    /\ cl_fed = <<>>

\* Server.__init__ (line 14): an empty registry and no connection
InitRelay ==
    /\ message_queue = EmptyDict
    /\ queues = <<>>
    /\ hs = [c \in Conns |-> "idle"]
    /\ client = [c \in Conns |-> <<>>]
    /\ wr = [c \in Conns |-> "none"]
    /\ wq = [c \in Conns |-> 0]
    /\ must_cancel = [c \in Conns |-> FALSE]
    /\ out = [c \in Conns |-> <<>>]
    /\ sent = <<>>
    /\ evicted = {}
    /\ nremoved = 0
    /\ closes = [c \in Conns |-> 0]

\* Pingable.__init__ (pingable.py lines 13-14)
InitPingable ==
    /\ retries = 1
    /\ ip_ignore_list = <<>>
    /\ ignore_read = <<>>

\* no compare_dicts call is in progress
InitDicts ==
    /\ dict_1 = EmptyDict
    /\ dict_2 = EmptyDict
    /\ differences = EmptyDict
    /\ compared = FALSE

\* Device.TIMEOUT_MS
TIMEOUT_MS == 10000

\* no instrument is attached and no Device object has opened one
InitVisa ==
    /\ dev_present = FALSE
    /\ dev_device = "None"
    /\ dev_timeout = TIMEOUT_MS
    /\ dev_log = <<>>
    /\ dev_calls = <<>>

\* ThreadedQueue.__init__ (threaded_queue.py lines 10-14): both lists are
\* empty and the action thread is started
InitQueue ==
    /\ tq_queue = <<>>
    /\ tq_action_queue = <<>>
    /\ tq_pc = "loop"
    /\ tq_action = <<>>
    /\ tq_requests = <<>>
    /\ tq_done = 0
    /\ tq_gets = <<>>

Init ==
    InitRelay /\ InitClient /\ InitPingable /\ InitDicts /\ InitVisa /\ InitQueue

(* ------------------------------ history ------------------------------- *)
\* connections that completed the handshake
Handshaken == {c \in Conns : hs[c] \in {"active", "closed", "crashed"}}

\* connections that completed the handshake under name
Holders(name) == {c \in Handshaken : client[c] = name}

\* connections bound to name whose handler is in its read loop
Bound(name) == {c \in Conns : hs[c] = "active" /\ client[c] = name}

\* connections bound to name whose writer is suspended in the get() of a queue
\* other than q: the queue it waits on was the name's when remove_client
\* took it out of the registry
Orphaned(name, q) == {c \in Bound(name) : wr[c] = "get" /\ wq[c] # q}

\* every name referenced so far, as a handshake name or as a target
Referenced ==
    {client[c] : c \in Handshaken} \cup {sent[i].target : i \in 1..Len(sent)}

(* --------------------------- asyncio.Queue ---------------------------- *)
NewQueue == [items |-> <<>>, getters |-> <<>>]

\* s without its element e
Without(s, e) == SelectSeq(s, LAMBDA x : x # e)

\* (had the code left out the membership test: a new Queue every time)
GetOrCreateReplace(mq, qs, name) ==
    <<(name :> (Len(qs) + 1)) @@ mq, Append(qs, NewQueue)>>
\* if name not in self.message_queue.keys(): self.message_queue[name] = Queue()
\* <<message_queue, queues>> afterwards
GetOrCreate(mq, qs, name) ==
    IF name \in DOMAIN mq
    THEN <<mq, qs>>
    ELSE <<(name :> (Len(qs) + 1)) @@ mq, Append(qs, NewQueue)>>

\* (had the mailbox been a stack: the item goes to the front)
PutFront(q, m) ==
    <<[items |-> <<m>> \o q.items,
       getters |-> IF q.getters = <<>> THEN <<>> ELSE Tail(q.getters)],
      IF q.getters = <<>> THEN 0 ELSE Head(q.getters)>>
\* Queue.put on an unbounded queue: append the item and wake the first getter
\* <<queue, woken getter or 0>>
Put(q, m) ==
    <<[items |-> Append(q.items, m),
       getters |-> IF q.getters = <<>> THEN <<>> ELSE Tail(q.getters)],
      IF q.getters = <<>> THEN 0 ELSE Head(q.getters)>>

\* _wakeup_next(self._getters) alone
Wakeup(q) ==
    <<[q EXCEPT !.getters = IF q.getters = <<>> THEN <<>> ELSE Tail(q.getters)],
      IF q.getters = <<>> THEN 0 ELSE Head(q.getters)>>

\* wr with getter g (0: nobody) woken
Woken(w, g) == IF g = 0 THEN w ELSE [w EXCEPT ![g] = "woken"]

(* --------------------------- proc_client ------------------------------ *)
\* (had the handler registered a mailbox and started the writer task before
\* the name line was read)
AcceptRegister(c) ==
    /\ hs[c] = "idle"
    /\ \A d \in Conns : d < c => hs[d] # "idle"
    /\ hs' = [hs EXCEPT ![c] = "handshake"]
    /\ LET r == GetOrCreate(message_queue, queues, <<>>)
       IN  /\ message_queue' = r[1]
           /\ queues' = r[2]
    /\ wr' = [wr EXCEPT ![c] = "new"]
    /\ UNCHANGED <<client, wq, must_cancel, out, sent, evicted, nremoved, closes, notRelay>>
\* asyncio.start_server accepts a peer and starts proc_client, which suspends
\* in its first readline; connections are numbered in the order of accept
Accept(c) ==
    /\ hs[c] = "idle"
    /\ \A d \in Conns : d < c => hs[d] # "idle"
    /\ hs' = [hs EXCEPT ![c] = "handshake"]
    /\ UNCHANGED <<message_queue, queues, client, wr, wq, must_cancel,
                   out, sent, evicted, nremoved, closes, notRelay>>

\* (had the handler assigned a new Queue to its name without the membership
\* test of line 33)
HandshakeFresh(c, line) ==
    /\ hs[c] = "handshake"
    /\ LET name == DropLast(line)
           r == GetOrCreateReplace(message_queue, queues, name)
       IN  /\ client' = [client EXCEPT ![c] = name]
           /\ message_queue' = r[1]
           /\ queues' = r[2]
           /\ evicted' = evicted \ {name}
    /\ hs' = [hs EXCEPT ![c] = "active"]
    /\ wr' = [wr EXCEPT ![c] = "new"]
    /\ UNCHANGED <<wq, must_cancel, out, sent, nremoved, closes, notRelay>>
\* lines 30-37: the name line arrives; register it, start the writer task and
\* enter _read, which suspends in readline
Handshake(c, line) ==
    /\ hs[c] = "handshake"
    /\ LET name == DropLast(line)
           r == GetOrCreate(message_queue, queues, name)
       IN  /\ client' = [client EXCEPT ![c] = name]
           /\ message_queue' = r[1]
           /\ queues' = r[2]
           /\ evicted' = evicted \ {name}
    /\ hs' = [hs EXCEPT ![c] = "active"]
    /\ wr' = [wr EXCEPT ![c] = "new"]
    /\ UNCHANGED <<wq, must_cancel, out, sent, nremoved, closes, notRelay>>

\* lines 30-39 when the peer closed before it sent a newline: readline returns
\* what it has, the handler registers the name and creates the writer task;
\* the readline of _read finds the stream at its end and returns b'' without
\* suspending, so line 38 cancels the writer task before its first step
HandshakeEof(c, line) ==
    /\ hs[c] = "handshake"
    /\ LET name == DropLast(line)
           r == GetOrCreate(message_queue, queues, name)
       IN  /\ client' = [client EXCEPT ![c] = name]
           /\ message_queue' = r[1]
           /\ queues' = r[2]
           /\ evicted' = evicted \ {name}
    /\ hs' = [hs EXCEPT ![c] = "closed"]
    /\ wr' = [wr EXCEPT ![c] = "new"]
    /\ must_cancel' = [must_cancel EXCEPT ![c] = TRUE]
    /\ UNCHANGED <<wq, out, sent, nremoved, closes, notRelay>>

\* proc_client ends with an exception.  The code never calls writer.close();
\* asyncio since 3.12 closes the transport of a handler task that failed,
\* earlier versions leave it as it is
Raised(c) ==
    closes' \in {closes, [closes EXCEPT ![c] = @ + 1]}

\* line 30 raises (the transport failed): the exception leaves proc_client
HandshakeError(c) ==
    /\ hs[c] = "handshake"
    /\ hs' = [hs EXCEPT ![c] = "failed"]
    /\ Raised(c)
    /\ UNCHANGED <<message_queue, queues, client, wr, wq, must_cancel,
                   out, sent, evicted, nremoved, notRelay>>

\* (had the handler cancelled every writer task, not only its own)
CancelAll(c) ==
    /\ must_cancel' = [d \in Conns |->
                         must_cancel[d] \/ wr[d] \in {"new", "get", "woken", "drain"}]
    /\ queues' = [q \in 1..Len(queues) |-> [queues[q] EXCEPT !.getters = <<>>]]
\* write_task.cancel(): a finished task is left alone; a task suspended on a
\* getter has that future cancelled at once (a cancelled getter is skipped by
\* every later wake-up); the CancelledError is delivered at the task's next step
Cancel(c) ==
    IF wr[c] \in {"new", "get", "woken", "drain"}
    THEN /\ must_cancel' = [must_cancel EXCEPT ![c] = TRUE]
         /\ queues' = IF wr[c] = "get"
                      THEN [queues EXCEPT ![wq[c]].getters = Without(@, c)]
                      ELSE queues
    ELSE /\ must_cancel' = must_cancel
         /\ queues' = queues

(* ------------------------------- _read -------------------------------- *)
\* lines 46-61: a line with a colon arrives; split it, create the target's
\* queue if the target is unknown, put the rebuilt frame
ReadFrame(c, line) ==
    /\ hs[c] = "active"
    /\ Len(sent) < MaxSend
    /\ HasColon(line)
    /\ LET target_user == Split(line)[1]
           message == Split(line)[2]
           r == GetOrCreate(message_queue, queues, target_user)
           q == r[1][target_user]
           m == [id |-> Len(sent) + 1, frame |-> Frame(client[c], message)]
           p == Put(r[2][q], m)
       IN  /\ message_queue' = r[1]
           /\ queues' = [r[2] EXCEPT ![q] = p[1]]
           /\ wr' = Woken(wr, p[2])
           /\ sent' = Append(sent, [from |-> c, line |-> line,
                                    target |-> target_user, queue |-> q,
                                    fresh |-> target_user \notin Referenced,
                                    before |-> Holders(target_user),
                                    live |-> Bound(target_user),
                                    orphaned |-> Orphaned(target_user, q)])
           /\ evicted' = evicted \ {target_user}
    /\ UNCHANGED <<hs, client, wq, must_cancel, out, nremoved, closes, notRelay>>

\* lines 46-61, 65-72 and 38-39 when the peer closed in the middle of a line:
\* readline returns the cut-off line, which holds a colon; it is split and
\* put like any other; the next readline finds the stream at its end and
\* returns b'' without suspending, the loop ends and the handler cancels the
\* writer task
ReadCutOff(c, line) ==
    /\ hs[c] = "active"
    /\ Len(sent) < MaxSend
    /\ HasColon(line)
    /\ LET target_user == Split(line)[1]
           message == Split(line)[2]
           r == GetOrCreate(message_queue, queues, target_user)
           q == r[1][target_user]
           m == [id |-> Len(sent) + 1, frame |-> Frame(client[c], message)]
           p == Put(r[2][q], m)
           put_queues == [r[2] EXCEPT ![q] = p[1]]
           put_wr == Woken(wr, p[2])
       IN  /\ message_queue' = r[1]
           /\ wr' = put_wr
           /\ must_cancel' = [must_cancel EXCEPT ![c] =
                                @ \/ put_wr[c] \in {"new", "get", "woken", "drain"}]
           /\ queues' = IF put_wr[c] = "get"
                        THEN [put_queues EXCEPT ![wq[c]].getters = Without(@, c)]
                        ELSE put_queues
           /\ sent' = Append(sent, [from |-> c, line |-> line,
                                    target |-> target_user, queue |-> q,
                                    fresh |-> target_user \notin Referenced,
                                    before |-> Holders(target_user),
                                    live |-> Bound(target_user),
                                    orphaned |-> Orphaned(target_user, q)])
           /\ evicted' = evicted \ {target_user}
    /\ hs' = [hs EXCEPT ![c] = "closed"]
    /\ UNCHANGED <<client, wq, out, nremoved, closes, notRelay>>

\* lines 46-56: a line without a colon arrives; the unpacking of split's
\* one-element result raises ValueError, which no handler of _read or
\* proc_client catches, so line 38 is never reached
ReadNoColon(c, line) ==
    /\ hs[c] = "active"
    /\ line # <<>>
    /\ ~HasColon(line)
    /\ hs' = [hs EXCEPT ![c] = "crashed"]
    /\ Raised(c)
    /\ UNCHANGED <<message_queue, queues, client, wr, wq, must_cancel, out,
                   sent, evicted, nremoved, notRelay>>

\* lines 46-53 / 65-72, then 38-39: readline returns b'' or raises; the loop
\* ends, proc_client cancels the writer task and returns
ReadEnd(c) ==
    /\ hs[c] = "active"
    /\ hs' = [hs EXCEPT ![c] = "closed"]
    /\ Cancel(c)
    /\ UNCHANGED <<message_queue, client, wr, wq, out, sent, evicted, nremoved, closes, notRelay>>

(* ------------------------------- _write ------------------------------- *)
\* (had the writer read the head of the queue without removing it)
WritePeek(c, q) ==
    /\ queues' = queues
    /\ out' = [out EXCEPT ![c] = Append(@, Head(queues[q].items))]
    /\ wr' = [wr EXCEPT ![c] = "drain"]
    /\ wq' = [wq EXCEPT ![c] = 0]
\* the writer takes the head of q and writes it: get_nowait(), writer.write()
Write(c, q) ==
    /\ queues' = [queues EXCEPT ![q].items = Tail(@)]
    /\ out' = [out EXCEPT ![c] = Append(@, Head(queues[q].items))]
    /\ wr' = [wr EXCEPT ![c] = "drain"]
    /\ wq' = [wq EXCEPT ![c] = 0]

\* Queue.get finds the queue empty: append a getter and suspend on it
Wait(c, q) ==
    /\ queues' = [queues EXCEPT ![q].getters = Append(@, c)]
    /\ wr' = [wr EXCEPT ![c] = "get"]
    /\ wq' = [wq EXCEPT ![c] = q]
    /\ out' = out

\* (had the writer taken from the mailbox of the first registered name instead
\* of the one of its own name)
WriterLoopFirst(c) ==
    /\ wr[c] \in {"new", "drain"}
    /\ ~must_cancel[c]
    /\ IF client[c] \notin DOMAIN message_queue
       THEN /\ wr' = [wr EXCEPT ![c] = "nokey"]
            /\ UNCHANGED <<queues, wq, out>>
       ELSE LET first == CHOOSE n \in DOMAIN message_queue :
                           \A m \in DOMAIN message_queue : n = m \/ StrLess(n, m)
                q == message_queue[first]
            IN  IF queues[q].items = <<>> THEN Wait(c, q) ELSE Write(c, q)
    /\ UNCHANGED <<message_queue, hs, client, must_cancel, sent, evicted, nremoved, closes, notRelay>>
\* lines 77-90 from the top of the loop (the task starts, or drain returned):
\* look the name up; KeyError ends the loop; otherwise get, write, drain
WriterLoop(c) ==
    /\ wr[c] \in {"new", "drain"}
    /\ ~must_cancel[c]
    /\ IF client[c] \notin DOMAIN message_queue
       THEN /\ wr' = [wr EXCEPT ![c] = "nokey"]
            /\ UNCHANGED <<queues, wq, out>>
       ELSE LET q == message_queue[client[c]]
            IN  IF queues[q].items = <<>> THEN Wait(c, q) ELSE Write(c, q)
    /\ UNCHANGED <<message_queue, hs, client, must_cancel, sent, evicted, nremoved, closes, notRelay>>

\* Queue.get resumes after its getter was woken: while self.empty() waits
\* again when another consumer took the item, otherwise get_nowait and write
WriterWake(c) ==
    /\ wr[c] = "woken"
    /\ ~must_cancel[c]
    /\ IF queues[wq[c]].items = <<>> THEN Wait(c, wq[c]) ELSE Write(c, wq[c])
    /\ UNCHANGED <<message_queue, hs, client, must_cancel, sent, evicted, nremoved, closes, notRelay>>

\* lines 90-93: drain raises; the loop ends
DrainError(c) ==
    /\ wr[c] = "drain"
    /\ ~must_cancel[c]
    /\ wr' = [wr EXCEPT ![c] = "wrerr"]
    /\ UNCHANGED <<message_queue, queues, hs, client, wq, must_cancel,
                   out, sent, evicted, nremoved, closes, notRelay>>

\* (had the put handed the item to the woken getter: a cancellation that
\* reaches the getter before it resumes drops the item)
CancelledDropHead(c) ==
    /\ must_cancel[c]
    /\ must_cancel' = [must_cancel EXCEPT ![c] = FALSE]
    /\ wq' = [wq EXCEPT ![c] = 0]
    /\ IF wr[c] = "woken" /\ queues[wq[c]].items # <<>>
       THEN /\ queues' = [queues EXCEPT ![wq[c]].items = Tail(@)]
            /\ wr' = [wr EXCEPT ![c] = "cancelled"]
       ELSE /\ queues' = queues
            /\ wr' = [wr EXCEPT ![c] = "cancelled"]
    /\ UNCHANGED <<message_queue, hs, client, out, sent, evicted, nremoved, closes, notRelay>>
\* the CancelledError reaches the task.  Inside Queue.get the except clause
\* passes a wake-up that this getter had received on to the next getter when
\* the queue is not empty; the item itself was never taken
Cancelled(c) ==
    /\ must_cancel[c]
    /\ must_cancel' = [must_cancel EXCEPT ![c] = FALSE]
    /\ wq' = [wq EXCEPT ![c] = 0]
    /\ IF wr[c] = "woken" /\ queues[wq[c]].items # <<>>
       THEN LET p == Wakeup(queues[wq[c]])
            IN  /\ queues' = [queues EXCEPT ![wq[c]] = p[1]]
                /\ wr' = Woken([wr EXCEPT ![c] = "cancelled"], p[2])
       ELSE /\ queues' = queues
            /\ wr' = [wr EXCEPT ![c] = "cancelled"]
    /\ UNCHANGED <<message_queue, hs, client, out, sent, evicted, nremoved, closes, notRelay>>

(* ----------------------- registry administration ---------------------- *)
\* the keys of a dict as a list
SetToSeq(S) ==
    LET RECURSIVE Enum(_)
        Enum(T) == IF T = {} THEN <<>>
                   ELSE LET x == CHOOSE x \in T : TRUE
                        IN  <<x>> \o Enum(T \ {x})
    IN  Enum(S)

\* (had the list been sorted the other way round)
current_clients_descending == SortSeq(SetToSeq(DOMAIN message_queue),
                                      LAMBDA s, t : StrLess(t, s))
\* sorted(self.message_queue.keys())
current_clients == SortSeq(SetToSeq(DOMAIN message_queue), StrLess)

\* del self.message_queue[name], KeyError caught
RemoveClient(name) ==
    /\ nremoved < MaxRemove
    /\ nremoved' = nremoved + 1
    /\ message_queue' = [n \in DOMAIN message_queue \ {name} |-> message_queue[n]]
    /\ evicted' = evicted \cup ({name} \cap Referenced)
    /\ UNCHANGED <<queues, hs, client, wr, wq, must_cancel, out, sent, closes,
                   notRelay>>

(* ---------------------------- specification --------------------------- *)
\* the steps of the server as `python messaging.py` runs it (lines 223-228):
\* nothing in the program calls remove_client
Next ==
    \/ \E c \in Conns : Accept(c)
    \/ \E c \in Conns, line \in HandshakeLines : Handshake(c, line)
    \/ \E c \in Conns, line \in HandshakeEnds : HandshakeEof(c, line)
    \/ \E c \in Conns : HandshakeError(c)
    \/ \E c \in Conns, line \in DataLines : ReadFrame(c, line)
    \/ \E c \in Conns, line \in CutOffLines : ReadCutOff(c, line)
    \/ \E c \in Conns, line \in GarbageLines : ReadNoColon(c, line)
    \/ \E c \in Conns : ReadEnd(c)
    \/ \E c \in Conns : WriterLoop(c)
    \/ \E c \in Conns : WriterWake(c)
    \/ \E c \in Conns : DrainError(c)
    \/ \E c \in Conns : Cancelled(c)

Spec == Init /\ [][Next]_vars

\* the Server object embedded in an application that may call remove_client
\* between any two steps of the event loop
NextAdmin ==
    \/ Next
    \/ \E name \in RemoveNames : RemoveClient(name)

SpecAdmin == Init /\ [][NextAdmin]_vars

\* the event loop runs every task that is ready: a writer task that can take
\* a step (it was started, woken, its drain returned, or it was cancelled)
\* eventually takes it
Fairness ==
    \A c \in Conns :
        /\ WF_vars(WriterLoop(c))
        /\ WF_vars(WriterWake(c))
        /\ WF_vars(Cancelled(c))

FairSpec == Spec /\ Fairness

(* ------------------------------- Client ------------------------------- *)
\* the names and bodies the application passes to send()
SendUsers == { <<"a">>, <<"b">> }
SendMessages == { <<"y">>, <<"h", COLON, "i">> }

\* what the server side of the stream may deliver in one write: the frames
\* "a:y\n" and "b:h:i\n", and "a:y" cut off before its newline
Deliveries ==
    { <<"a", COLON, "y", NL>>,
      <<"b", COLON, "h", COLON, "i", NL>>,
      <<"a", COLON, "y">> }

\* line 140: f'{user}:{message}\n'
ClientFrame(user, message) == user \o <<COLON>> \o message \o <<NL>>

\* position of the first newline of s, 0 when it has none
NewlineAt(s) ==
    IF \E i \in 1..Len(s) : s[i] = NL
    THEN CHOOSE i \in 1..Len(s) : s[i] = NL /\ \A j \in 1..(i - 1) : s[j] # NL
    ELSE 0

\* StreamReader.readline on buffer b of a stream in state e:
\* [kind, data, rest] with kind "raise" (the stored exception is raised),
\* "data" (a line up to its newline, or at EOF what is left, possibly b''),
\* "wait" (the call suspends until more arrives)
ReadLine(b, e) ==
    IF e = "exc" THEN [kind |-> "raise", data |-> <<>>, rest |-> b]
    ELSE IF NewlineAt(b) > 0
         THEN [kind |-> "data", data |-> SubSeq(b, 1, NewlineAt(b)),
               rest |-> SubSeq(b, NewlineAt(b) + 1, Len(b))]
         ELSE IF e = "eof"
              THEN [kind |-> "data", data |-> b, rest |-> <<>>]
              ELSE [kind |-> "wait", data |-> <<>>, rest |-> b]

\* the value None, and a str value
None == [kind |-> "None", val |-> <<>>]
Str(s) == [kind |-> "str", val |-> s]

\* lines 127-136: connect() opens the stream and sets _reader and _writer
ClientConnect ==
    /\ cl_conn = "none"
    /\ cl_conn' = "open"
    /\ UNCHANGED <<cl_buffer, cl_end, cl_wire, cl_calls, cl_fed, notClient>>

\* the server side writes a chunk to the stream
ServerFeed(chunk) ==
    /\ cl_conn = "open"
    /\ cl_end = "open"
    /\ Len(cl_fed) < MaxFeed
    /\ cl_buffer' = cl_buffer \o chunk
    /\ cl_fed' = Append(cl_fed, chunk)
    /\ UNCHANGED <<cl_conn, cl_end, cl_wire, cl_calls, notClient>>

\* the server side closes the stream: feed_eof; the transport stays writable
ServerClose ==
    /\ cl_conn = "open"
    /\ cl_end = "open"
    /\ cl_end' = "eof"
    /\ UNCHANGED <<cl_conn, cl_buffer, cl_wire, cl_calls, cl_fed, notClient>>

\* the connection is lost with an error: set_exception, connection_lost
TransportError ==
    /\ cl_conn = "open"
    /\ cl_end \in {"open", "eof"}
    /\ cl_end' = "exc"
    /\ UNCHANGED <<cl_conn, cl_buffer, cl_wire, cl_calls, cl_fed, notClient>>

\* (had send() had no try/except around the write)
ClientSendRaises(user, message, flushed) ==
    /\ Len(cl_calls) < MaxCalls
    /\ flushed => (cl_conn = "open" /\ cl_end # "exc")
    /\ LET ok == cl_conn = "open" /\ cl_end # "exc" /\ flushed
       IN  /\ cl_wire' = IF ok THEN Append(cl_wire, ClientFrame(user, message))
                         ELSE cl_wire
           /\ cl_end' = IF cl_conn = "open" /\ ~ok THEN "exc" ELSE cl_end
           /\ cl_calls' = Append(cl_calls,
                 [op |-> "send", user |-> user, message |-> message,
                  conn |-> cl_conn, end |-> cl_end, flushed |-> ok,
                  ret |-> IF ok THEN "True" ELSE "raised"])
    /\ UNCHANGED <<cl_conn, cl_buffer, cl_fed, notClient>>
\* lines 138-148: send().  With _writer None the attribute access raises; on a
\* lost connection write() discards the data and drain() raises; otherwise the
\* frame is written and drain() either completes (flushed) or raises because
\* the transport broke during the flush.  Every Exception gives False.
ClientSend(user, message, flushed) ==
    /\ Len(cl_calls) < MaxCalls
    /\ flushed => (cl_conn = "open" /\ cl_end # "exc")
    /\ LET ok == cl_conn = "open" /\ cl_end # "exc" /\ flushed
       IN  /\ cl_wire' = IF ok THEN Append(cl_wire, ClientFrame(user, message))
                         ELSE cl_wire
           /\ cl_end' = IF cl_conn = "open" /\ ~ok THEN "exc" ELSE cl_end
           /\ cl_calls' = Append(cl_calls,
                 [op |-> "send", user |-> user, message |-> message,
                  conn |-> cl_conn, end |-> cl_end, flushed |-> ok,
                  ret |-> IF ok THEN "True" ELSE "False"])
    /\ UNCHANGED <<cl_conn, cl_buffer, cl_fed, notClient>>

\* the record of a receive() call that returned r
Received(r) ==
    [op |-> "receive", conn |-> cl_conn, end |-> cl_end, buffer |-> cl_buffer,
     ret |-> r]

\* lines 150-167: receive() returns.  With _reader None the attribute access
\* raises and None is returned; a raising readline gives None; empty data
\* gives None; any other data is returned without its last character
ClientReceive ==
    /\ Len(cl_calls) < MaxCalls
    /\ IF cl_conn = "none"
       THEN /\ cl_calls' = Append(cl_calls, Received(None))
            /\ cl_buffer' = cl_buffer
       ELSE LET r == ReadLine(cl_buffer, cl_end)
            IN  /\ r.kind # "wait"
                /\ cl_buffer' = r.rest
                /\ cl_calls' = Append(cl_calls,
                      Received(IF r.kind = "raise" \/ r.data = <<>>
                               THEN None
                               ELSE Str(DropLast(r.data))))
    /\ UNCHANGED <<cl_conn, cl_end, cl_wire, cl_fed, notClient>>

\* lines 157-159: the task awaiting receive() is cancelled while readline is
\* suspended; the CancelledError is caught and None is returned
ClientReceiveCancelled ==
    /\ Len(cl_calls) < MaxCalls
    /\ cl_conn = "open"
    /\ ReadLine(cl_buffer, cl_end).kind = "wait"
    /\ cl_calls' = Append(cl_calls, Received(None))
    /\ UNCHANGED <<cl_conn, cl_buffer, cl_end, cl_wire, cl_fed, notClient>>

\* one Client object, the stream it connects to, and an application calling
\* send() and receive()
NextClient ==
    \/ ClientConnect
    \/ \E chunk \in Deliveries : ServerFeed(chunk)
    \/ ServerClose
    \/ TransportError
    \/ \E user \in SendUsers, message \in SendMessages, flushed \in BOOLEAN :
          ClientSend(user, message, flushed)
    \/ ClientReceive
    \/ ClientReceiveCancelled

SpecClient == Init /\ [][NextClient]_vars

(* ------------------------------ Pingable ------------------------------ *)
\* numbers an application may assign to retries
RetryInputs == {0, 1, 2, 3, 4}

\* last octets an application may put into the ignore list
Octets == {-455, 0, 1, 254, 255, 256}

\* values an application may assign to ip_ignore_list: lists and tuples of
\* octets, and values of other types
IgnoreInputs ==
    {[type |-> t, items |-> <<>>] : t \in {"list", "tuple", "str", "NoneType"}}
       \cup {[type |-> t, items |-> <<m>>] : t \in {"list", "tuple"}, m \in Octets}
       \cup {[type |-> t, items |-> <<m, n>>] :
                t \in {"list", "tuple"}, m \in {1, 254}, n \in Octets}

\* lines 25-34: the retries setter logs a warning for a number outside
\* (1, 2, 3) and then stores the number it was given
SetRetries(number) ==
    /\ retries' = number
    /\ UNCHANGED <<ip_ignore_list, ignore_read, notPing>>

\* lines 43-54: the getter walks the list backwards and pops every number
\* below 0 and every number above 255; what is left is returned
Filtered(l) == SelectSeq(l, LAMBDA num : ~(num < 0) /\ ~(num > 255))

\* reading p.ip_ignore_list
ReadIgnoreList ==
    /\ ip_ignore_list' = Filtered(ip_ignore_list)
    /\ ignore_read' = Filtered(ip_ignore_list)
    /\ UNCHANGED <<retries, notPing>>

\* lines 56-66: the setter stores list(ignore_list) for a list or a tuple and
\* only logs a warning for any other type
AssignIgnoreList(ignore_list) ==
    /\ ip_ignore_list' = IF ignore_list.type \in {"list", "tuple"}
                         THEN ignore_list.items
                         ELSE ip_ignore_list
    /\ UNCHANGED <<retries, ignore_read, notPing>>

\* p.ip_ignore_list.append(num): the getter filters and returns the stored
\* list object, to which the number is appended in place
AppendIgnore(num) ==
    /\ Len(ip_ignore_list) < MaxIgnore
    /\ ip_ignore_list' = Append(Filtered(ip_ignore_list), num)
    /\ ignore_read' = Filtered(ip_ignore_list)
    /\ UNCHANGED <<retries, notPing>>

\* an application assigning to and reading the properties of one Pingable
NextPingable ==
    \/ \E number \in RetryInputs : SetRetries(number)
    \/ ReadIgnoreList
    \/ \E ignore_list \in IgnoreInputs : AssignIgnoreList(ignore_list)
    \/ \E num \in Octets : AppendIgnore(num)

SpecPingable == Init /\ [][NextPingable]_vars

(* ---------------------------- compare_dicts --------------------------- *)
\* the keys and values of the dictionaries compared (ping results per address)
Keys == {"1.0.0.1", "1.0.0.2", "1.0.0.3"}
Dicts == UNION {[K -> BOOLEAN] : K \in SUBSET Keys}

\* (had line 197 paired the values of the shorter and the longer dictionary)
compare_dicts_short_long(d_1, d_2) ==
    LET short_dict == IF Cardinality(DOMAIN d_1) < Cardinality(DOMAIN d_2)
                      THEN d_1 ELSE d_2
        long_dict == IF Cardinality(DOMAIN d_1) < Cardinality(DOMAIN d_2)
                     THEN d_2 ELSE d_1
        RECURSIVE Loop(_, _)
        Loop(keys, diffs) ==
            IF keys = <<>> THEN diffs
            ELSE LET key == Head(keys)
                 IN  IF key \notin DOMAIN long_dict
                     THEN Loop(Tail(keys), diffs)
                     ELSE IF short_dict[key] # long_dict[key]
                          THEN Loop(Tail(keys),
                                    (key :> <<short_dict[key], long_dict[key]>>) @@ diffs)
                          ELSE Loop(Tail(keys), diffs)
    IN  Loop(SetToSeq(DOMAIN short_dict), EmptyDict)
\* lines 183-199: iterate the shorter dictionary (the second when they are
\* equally long), skip the keys the longer one lacks, and for a key whose
\* values differ store [dict_1[key], dict_2[key]]
compare_dicts(d_1, d_2) ==
    LET short_dict == IF Cardinality(DOMAIN d_1) < Cardinality(DOMAIN d_2)
                      THEN d_1 ELSE d_2
        long_dict == IF Cardinality(DOMAIN d_1) < Cardinality(DOMAIN d_2)
                     THEN d_2 ELSE d_1
        RECURSIVE Loop(_, _)
        Loop(keys, diffs) ==
            IF keys = <<>> THEN diffs
            ELSE LET key == Head(keys)
                 IN  IF key \notin DOMAIN long_dict
                     THEN Loop(Tail(keys), diffs)
                     ELSE IF short_dict[key] # long_dict[key]
                          THEN Loop(Tail(keys),
                                    (key :> <<d_1[key], d_2[key]>>) @@ diffs)
                          ELSE Loop(Tail(keys), diffs)
    IN  Loop(SetToSeq(DOMAIN short_dict), EmptyDict)

\* a caller holds two dictionaries
InitCompare ==
    /\ InitRelay /\ InitClient /\ InitPingable /\ InitVisa /\ InitQueue
    /\ dict_1 \in Dicts
    /\ dict_2 \in Dicts
    /\ differences = EmptyDict
    /\ compared = FALSE

\* differences = compare_dicts(dict_1, dict_2); the function assigns to no
\* item of its arguments
CompareDicts ==
    /\ ~compared
    /\ differences' = compare_dicts(dict_1, dict_2)
    /\ compared' = TRUE
    /\ UNCHANGED <<dict_1, dict_2, notDict>>

NextCompare == CompareDicts

SpecCompare == InitCompare /\ [][NextCompare]_vars

(* ----------------------------- visa Device ---------------------------- *)
\* Msg.COM_ERR, Msg.PROCESSING, Msg.TIMEOUT, Msg.SYNTAX_ERR, Msg.OK
COM_ERR == "comm error"
PROCESSING == "processing"
TIMEOUT == "timeout"
SYNTAX_ERR == "syntax error"
OK == "success"

\* commands, as sequences of characters: '', a setting 'S' and a query 'S?'
Cmds == { <<>>, <<"S">>, <<"S", "?">> }

\* lines 17-30 and 37-51: Msg(cmd); validate answers an empty command itself
Msg(cmd) ==
    [cmd |-> cmd,
     response |-> IF cmd = <<>> THEN SYNTAX_ERR ELSE PROCESSING,
     timeout |-> 0]

\* what an application may pass to send(): a command string, or a Msg object
\* it built, possibly with a timeout set (0 stands for None) and possibly
\* sent before (its response is then no longer PROCESSING)
SendInputs ==
    {[type |-> "str", msg |-> Msg(cmd)] : cmd \in Cmds}
       \cup {[type |-> "Msg", msg |-> [Msg(cmd) EXCEPT !.timeout = t]] :
                cmd \in Cmds, t \in {0, 3000}}
       \cup {[type |-> "Msg", msg |-> [Msg(cmd) EXCEPT !.response = OK]] :
                cmd \in Cmds \ {<<>>}}

\* what the instrument may do with a write or a query: accept it, accept
\* fewer characters than were sent, or fail (an instrument that was removed
\* can only fail)
Outcomes == {"ok", "short", "ValueError", "VisaIOError"}

\* lines 133-141: the device property opens the first resource when none is
\* open; "None" when nothing is attached
DeviceOf(d, present) == IF d = "open" \/ present THEN "open" ELSE "None"

\* lines 143-178: _write and _query store the result in msg.response
Response(is_query, outcome) ==
    CASE outcome = "ValueError" -> COM_ERR
      [] outcome = "VisaIOError" -> TIMEOUT
      [] outcome = "ok" -> IF is_query THEN "reply" ELSE OK
      [] outcome = "short" -> IF is_query THEN "reply" ELSE "comm error: n != r!"

\* the record of a send() call
Sent(input, available, kind, response, issued) ==
    [type |-> input.type, cmd |-> input.msg.cmd, pre |-> input.msg.response,
     available |-> available, kind |-> kind, response |-> response,
     issued |-> issued]

\* an instrument is plugged in or removed
Plug ==
    /\ dev_present' = ~dev_present
    /\ UNCHANGED <<dev_device, dev_timeout, dev_log, dev_calls, notVisa>>

\* lines 109-111: reset_device()
ResetDevice ==
    /\ dev_device = "open"
    /\ dev_device' = "None"
    /\ UNCHANGED <<dev_present, dev_timeout, dev_log, dev_calls, notVisa>>

\* lines 180-220: send(cmd).  A message whose response is not PROCESSING is
\* returned at once; with no device the response is COM_ERR; otherwise the
\* message's timeout, if any, is set on the device, and line 212 indexes the
\* argument cmd: a str gives its last character, a Msg object is not
\* subscriptable and TypeError leaves send(); a command not ending in '?' is
\* written, any other queried; an I/O error resets the device
Send(input, outcome) ==
    /\ Len(dev_calls) < MaxVisa
    /\ outcome \in {"ok", "short"} => dev_present
    /\ LET msg == input.msg
           device == DeviceOf(dev_device, dev_present)
           opened == dev_device = "None" /\ device = "open"
           is_query == msg.cmd[Len(msg.cmd)] = "?"
       IN  IF msg.response # PROCESSING
           THEN /\ dev_calls' = Append(dev_calls,
                      Sent(input, device = "open", "Msg", msg.response, FALSE))
                /\ UNCHANGED <<dev_device, dev_timeout, dev_log>>
           ELSE IF device = "None"
           THEN /\ dev_calls' = Append(dev_calls,
                      Sent(input, FALSE, "Msg", COM_ERR, FALSE))
                /\ UNCHANGED <<dev_device, dev_timeout, dev_log>>
           ELSE IF input.type = "Msg"
           THEN /\ dev_calls' = Append(dev_calls,
                      Sent(input, TRUE, "TypeError", msg.response, FALSE))
                /\ dev_device' = "open"
                /\ dev_timeout' = IF msg.timeout # 0 THEN msg.timeout
                                  ELSE IF opened THEN TIMEOUT_MS ELSE dev_timeout
                /\ dev_log' = dev_log
           ELSE /\ dev_calls' = Append(dev_calls,
                      Sent(input, TRUE, "Msg", Response(is_query, outcome), TRUE))
                /\ dev_device' = IF outcome \in {"ValueError", "VisaIOError"}
                                 THEN "None" ELSE "open"
                /\ dev_timeout' = IF opened THEN TIMEOUT_MS ELSE dev_timeout
                /\ dev_log' = Append(dev_log,
                      [op |-> IF is_query THEN "query" ELSE "write",
                       cmd |-> msg.cmd])
    /\ UNCHANGED <<dev_present, notVisa>>

\* lines 65-77: Device() opens the instrument if one is attached
InitDevice ==
    /\ InitRelay /\ InitClient /\ InitPingable /\ InitDicts /\ InitQueue
    /\ dev_present \in BOOLEAN
    /\ dev_device = DeviceOf("None", dev_present)
    /\ dev_timeout = TIMEOUT_MS
    /\ dev_log = <<>>
    /\ dev_calls = <<>>

\* an application sending commands through one Device object
NextDevice ==
    \/ Plug
    \/ ResetDevice
    \/ \E input \in SendInputs, outcome \in Outcomes : Send(input, outcome)

SpecDevice == InitDevice /\ [][NextDevice]_vars

(* --------------------------- ThreadedQueue ---------------------------- *)
\* the items the application adds, and the indexes it passes to remove()
\* and get(): Python counts a negative index from the end of the list
Items == { 25, 26 }
Indexes == { -1, 0, 1 }

\* the position (from 1) of index n in list l, and whether l has it: l[n] and
\* l.pop(n) raise IndexError when it has not
Position(l, n) == IF n >= 0 THEN n + 1 ELSE Len(l) + n + 1
HasIndex(l, n) == 1 <= Position(l, n) /\ Position(l, n) <= Len(l)

\* l after l.pop(n)
Pop(l, n) == SubSeq(l, 1, Position(l, n) - 1) \o SubSeq(l, Position(l, n) + 1, Len(l))

\* what get() returns: None, or an item
NoItem == [none |-> TRUE, item |-> 0]
Item(x) == [none |-> FALSE, item |-> x]

\* lines 16-18: add() appends ('add', item) to the action queue
Add(item) ==
    /\ Len(tq_requests) < MaxRequests
    /\ tq_action_queue' = Append(tq_action_queue, <<"add", item>>)
    /\ tq_requests' = Append(tq_requests, <<"add", item>>)
    /\ UNCHANGED <<tq_queue, tq_pc, tq_action, tq_done, tq_gets, notQueue>>

\* lines 20-22: remove() appends ('remove', index) to the action queue
Remove(index) ==
    /\ Len(tq_requests) < MaxRequests
    /\ tq_action_queue' = Append(tq_action_queue, <<"remove", index>>)
    /\ tq_requests' = Append(tq_requests, <<"remove", index>>)
    /\ UNCHANGED <<tq_queue, tq_pc, tq_action, tq_done, tq_gets, notQueue>>

\* lines 24-29: get() returns self.queue[number], or None on IndexError
Get(number) ==
    /\ Len(tq_gets) < MaxGets
    /\ tq_gets' = Append(tq_gets,
                         [number |-> number,
                          queue |-> tq_queue,
                          ret |-> IF HasIndex(tq_queue, number)
                                  THEN Item(tq_queue[Position(tq_queue, number)])
                                  ELSE NoItem])
    /\ UNCHANGED <<tq_queue, tq_action_queue, tq_pc, tq_action, tq_requests,
                   tq_done, notQueue>>

\* (had the thread taken the newest action: pop() instead of pop(0))
ActionThreadLast ==
    /\ tq_pc = "loop"
    /\ IF tq_action_queue = <<>>
       THEN /\ tq_pc' = "sleep"
            /\ UNCHANGED <<tq_action_queue, tq_action>>
       ELSE /\ tq_action' = tq_action_queue[Len(tq_action_queue)]
            /\ tq_action_queue' = DropLast(tq_action_queue)
            /\ tq_pc' = tq_action_queue[Len(tq_action_queue)][1]
    /\ UNCHANGED <<tq_queue, tq_requests, tq_done, tq_gets, notQueue>>
\* lines 33-43: the thread pops the oldest action and enters the long process
\* it names (which starts by sleeping one second); on IndexError, the action
\* queue being empty, it sleeps sleep_time
ActionThread ==
    /\ tq_pc = "loop"
    /\ IF tq_action_queue = <<>>
       THEN /\ tq_pc' = "sleep"
            /\ UNCHANGED <<tq_action_queue, tq_action>>
       ELSE /\ tq_action' = Head(tq_action_queue)
            /\ tq_action_queue' = Tail(tq_action_queue)
            /\ tq_pc' = Head(tq_action_queue)[1]
    /\ UNCHANGED <<tq_queue, tq_requests, tq_done, tq_gets, notQueue>>

\* lines 37-38: time.sleep(self.sleep_time) returns; continue
Wake ==
    /\ tq_pc = "sleep"
    /\ tq_pc' = "loop"
    /\ UNCHANGED <<tq_queue, tq_action_queue, tq_action, tq_requests, tq_done,
                   tq_gets, notQueue>>

\* lines 45-48: the second has passed; append the item and go round the loop
LongProcessAdd ==
    /\ tq_pc = "add"
    /\ tq_queue' = Append(tq_queue, tq_action[2])
    /\ tq_pc' = "loop"
    /\ tq_done' = tq_done + 1
    /\ UNCHANGED <<tq_action_queue, tq_action, tq_requests, tq_gets, notQueue>>

\* lines 50-53: the second has passed; self.queue.pop(index).  When the list
\* has no such index pop raises IndexError, which nothing in action_thread
\* catches: the thread ends
LongProcessRemove ==
    /\ tq_pc = "remove"
    /\ IF HasIndex(tq_queue, tq_action[2])
       THEN /\ tq_queue' = Pop(tq_queue, tq_action[2])
            /\ tq_pc' = "loop"
            /\ tq_done' = tq_done + 1
       ELSE /\ tq_pc' = "dead"
            /\ UNCHANGED <<tq_queue, tq_done>>
    /\ UNCHANGED <<tq_action_queue, tq_action, tq_requests, tq_gets, notQueue>>

\* an application that calls add(), remove() and get() while the action
\* thread runs
NextQueue ==
    \/ \E item \in Items : Add(item)
    \/ \E index \in Indexes : Remove(index)
    \/ \E number \in Indexes : Get(number)
    \/ ActionThread
    \/ Wake
    \/ LongProcessAdd
    \/ LongProcessRemove

SpecQueue == Init /\ [][NextQueue]_vars

(* ------------------------- reading the history ------------------------ *)
Ids == 1..Len(sent)

\* the put numbers of a sequence of queued or written messages
IdsOf(ms) == [k \in 1..Len(ms) |-> ms[k].id]

Increasing(ids) ==
    \A j, k \in 1..Len(ids) : j < k => ids[j] < ids[k]

\* put numbers, in put order, of the messages put into queue object q
EnqIds(q) == SelectSeq([k \in 1..Len(sent) |-> k], LAMBDA k : sent[k].queue = q)

\* the members of ids that were put into queue object q
FromQueue(ids, q) == SelectSeq(ids, LAMBDA k : sent[k].queue = q)

\* message i is in the mailbox the registry holds for its target
InMailbox(i) ==
    /\ sent[i].target \in DOMAIN message_queue
    /\ \E k \in 1..Len(queues[message_queue[sent[i].target]].items) :
          queues[message_queue[sent[i].target]].items[k].id = i

\* message i is in some queue object
InSomeQueue(i) ==
    \E q \in 1..Len(queues) : \E k \in 1..Len(queues[q].items) :
        queues[q].items[k].id = i

\* message i was written to connection c
WrittenTo(i, c) == \E k \in 1..Len(out[c]) : out[c][k].id = i

\* c is the only connection that ever took the name it is bound to
OnlyHolder(c) ==
    \A d \in Handshaken : client[d] = client[c] => d = c

\* the writer task of c exists and has not finished
Running(c) == wr[c] \in {"new", "get", "woken", "drain"}

(* -------------------------------- C1 ---------------------------------- *)
\* C1: per-mailbox FIFO.  Every mailbox holds its messages in put order, every
\* connection is written its messages in put order, and for the single
\* connection bound to a name the frames written so far followed by the frames
\* still queued are exactly the frames put into that name's mailbox, in put
\* order: no frame overtakes an earlier one and none is skipped.
C1_FIFO ==
    /\ \A q \in 1..Len(queues) : Increasing(IdsOf(queues[q].items))
    /\ \A c \in Conns : Increasing(IdsOf(out[c]))
    /\ \A c \in Handshaken :
          OnlyHolder(c) =>
             \A q \in 1..Len(queues) :
                (\E i \in Ids : sent[i].queue = q /\ sent[i].target = client[c])
                   => FromQueue(IdsOf(out[c]), q) \o IdsOf(queues[q].items)
                        = EnqIds(q)

\* two frames put by two different senders were both written to the single
\* connection bound to their target
C1_Witness ==
    \E c \in Handshaken :
        /\ OnlyHolder(c)
        /\ Len(out[c]) = 2
        /\ sent[out[c][1].id].from # sent[out[c][2].id].from

(* -------------------------------- C2 ---------------------------------- *)
\* a data frame addressed to a name that was never referenced is put, in the
\* same step, into a newly created mailbox of that name holding only it, and
\* the reader that read it goes on reading
LazyCreate ==
    \A c \in Conns, line \in DataLines :
        (ReadFrame(c, line) /\ Split(line)[1] \notin Referenced)
           => /\ Split(line)[1] \notin DOMAIN message_queue
              /\ Split(line)[1] \in DOMAIN message_queue'
              /\ IdsOf(queues'[message_queue'[Split(line)[1]]].items)
                   = <<Len(sent) + 1>>
              /\ hs'[c] = "active"

\* a message put for a then unknown name is in that name's mailbox until it is
\* written to a connection that completed the handshake under that name
Retained ==
    \A i \in Ids :
        sent[i].fresh =>
            \/ InMailbox(i)
            \/ \E c \in Handshaken :
                  client[c] = sent[i].target /\ WrittenTo(i, c)

\* message i waits in its mailbox while a connection bound to its target is
\* active
Waiting(i) ==
    /\ i \in Ids
    /\ sent[i].fresh
    /\ InMailbox(i)
    /\ Bound(sent[i].target) # {}

\* message i was written to a connection bound to its target, or no writer
\* task of such a connection is left (each was cancelled or hit a write error)
Served(i) ==
    /\ i \in Ids
    /\ \/ \E c \in Handshaken : client[c] = sent[i].target /\ WrittenTo(i, c)
       \/ \A c \in Handshaken :
             client[c] = sent[i].target => (~Running(c) \/ must_cancel[c])

\* C2: a frame for a never-referenced name T is no error: its mailbox is
\* created by the put, the message stays there until a connection handshakes
\* as T, and once such a connection is active the message is eventually
\* written to a connection bound to T (unless every such connection ends
\* first).
C2_LazyMailbox ==
    /\ [][LazyCreate]_vars
    /\ []Retained
    /\ \A i \in 1..MaxSend : Waiting(i) ~> Served(i)

\* a message put for a name nobody had referenced was written to a connection
\* that took the name afterwards
C2_Witness ==
    \E i \in Ids : \E c \in Handshaken :
        /\ sent[i].fresh
        /\ client[c] = sent[i].target
        /\ c # sent[i].from
        /\ WrittenTo(i, c)

(* -------------------------------- C3 ---------------------------------- *)
\* m is the frame sender:body rebuilt from the line its sender sent: sender
\* is the name that connection bound at its handshake, body is what follows
\* the first colon of the line
Rebuilt(m) ==
    LET h == sent[m.id]
    IN  \E p \in 1..Len(h.line) :
           /\ h.line[p] = COLON
           /\ \A r \in 1..(p - 1) : h.line[r] # COLON
           /\ m.frame = client[h.from] \o <<COLON>> \o SubSeq(h.line, p + 1, Len(h.line))

\* C3: every frame the relay holds for delivery or has written is sender:body,
\* where sender is the name the sending connection bound at its handshake and
\* body is everything after the first colon of the line that connection sent.
C3_SenderBody ==
    /\ \A c \in Conns : \A k \in 1..Len(out[c]) : Rebuilt(out[c][k])
    /\ \A q \in 1..Len(queues) : \A k \in 1..Len(queues[q].items) :
          Rebuilt(queues[q].items[k])

\* alice sent bob:h:i and bob received alice:h:i; bob sent alice:y and alice
\* received bob:y
C3_Witness ==
    \E alice, bob \in Conns :
        /\ client[alice] = <<"a">>
        /\ client[bob] = <<"b">>
        /\ \E k \in 1..Len(out[bob]) :
              out[bob][k].frame = <<"a", COLON, "h", COLON, "i", NL>>
        /\ \E k \in 1..Len(out[alice]) :
              out[alice][k].frame = <<"b", COLON, "y", NL>>

(* -------------------------------- C4 ---------------------------------- *)
\* C4: when an active connection's reader reads a line without a colon, the
\* line is discarded: the handler stays in its read loop and no mailbox
\* changes.
C4_GarbageDropped ==
    [][\A c \in Conns, line \in GarbageLines :
          ReadNoColon(c, line)
             => /\ hs'[c] = "active"
                /\ message_queue' = message_queue
                /\ queues' = queues]_vars

(* -------------------------------- C5 ---------------------------------- *)
\* the steps that end a pump of connection a: its reader sees end-of-stream
\* or a transport error (and the handler cancels the writer), its writer
\* fails in drain, its writer receives the cancellation
Teardown(a) == ReadEnd(a) \/ DrainError(a) \/ Cancelled(a)

\* C5: a step that ends a pump of connection A leaves the registry and the
\* contents of every mailbox unchanged, and for every other connection B it
\* leaves the handler where it is, the stream output as it is, and the writer
\* task no more cancelled than it was and either where it was or woken, still
\* registered as a getter when it waits uncancelled.
C5_Isolation ==
    [][\A a \in Conns :
          Teardown(a)
             => /\ message_queue' = message_queue
                /\ Len(queues') = Len(queues)
                /\ \A q \in 1..Len(queues) : queues'[q].items = queues[q].items
                /\ \A b \in Conns \ {a} :
                      /\ hs'[b] = hs[b]
                      /\ client'[b] = client[b]
                      /\ out'[b] = out[b]
                      /\ must_cancel'[b] = must_cancel[b]
                      /\ \/ wr'[b] = wr[b]
                         \/ wr[b] = "get" /\ wr'[b] = "woken"
                      /\ (wr'[b] = "get" /\ ~must_cancel'[b])
                            => \E k \in 1..Len(queues'[wq'[b]].getters) :
                                  queues'[wq'[b]].getters[k] = b]_vars

\* A was torn down while B, having received a frame, is still active with a
\* running writer
C5_Witness ==
    \E a, b \in Conns :
        /\ a # b
        /\ hs[a] = "closed"
        /\ wr[a] = "cancelled"
        /\ hs[b] = "active"
        /\ Running(b)
        /\ ~must_cancel[b]
        /\ out[b] # <<>>

(* -------------------------------- C6 ---------------------------------- *)
\* the rank of the names the inputs can produce, in code point order
NameRank(n) ==
    CASE n = <<>> -> 0
      [] n = <<"a">> -> 1
      [] n = <<"b">> -> 2

Sorted(names) ==
    \A j, k \in 1..Len(names) : j < k => NameRank(names[j]) < NameRank(names[k])

Elems(names) == {names[k] : k \in 1..Len(names)}

\* C6 as claimed: current_clients() is, sorted and without duplicates, the set
\* of every name ever referenced as a handshake name or as a target.
C6_EverReferenced ==
    /\ Sorted(current_clients)
    /\ Elems(current_clients) = Referenced

\* C6 amended: current_clients() is, sorted and without duplicates, the set of
\* the names referenced as a handshake name or as a target and not removed by
\* remove_client since they were last referenced.
C6_ReferencedNotRemoved ==
    /\ Sorted(current_clients)
    /\ Elems(current_clients) = Referenced \ evicted

\* two names are listed, one of which no connection ever took, and a third
\* name that was referenced has been removed
C6_Witness ==
    /\ Len(current_clients) = 2
    /\ evicted # {}
    /\ \E n \in DOMAIN message_queue : \A c \in Handshaken : client[c] # n

(* -------------------------------- C7 ---------------------------------- *)
\* C7: no message is lost to a cancellation: every message that was put is
\* still in a queue or has been written to a stream.
C7_NoLoss ==
    \A i \in Ids : InSomeQueue(i) \/ \E c \in Conns : WrittenTo(i, c)

\* write_task.cancel() has landed on a writer that a put had just woken and
\* that has not yet taken the message
C7_Witness ==
    \E c \in Conns :
        /\ must_cancel[c]
        /\ wr[c] = "woken"
        /\ queues[wq[c]].items # <<>>

(* -------------------------------- C8 ---------------------------------- *)
\* C8: once the reader pump of a connection has left its loop, for whatever
\* cause, its writer task has been cancelled or had already finished.
C8_WriterCancelled ==
    \A c \in Conns :
        hs[c] \in {"closed", "crashed"}
           => (must_cancel[c] \/ wr[c] \in {"cancelled", "nokey", "wrerr"})

(* -------------------------------- C9 ---------------------------------- *)
\* the handler of c returns: its reader saw end-of-stream or an error
Disconnect(c) == hs[c] = "active" /\ hs'[c] = "closed"

\* C9: a disconnect leaves the registry and every queued message as they are;
\* a message put for a name while no connection is bound to it stays in the
\* name's mailbox until it is written to a connection that handshakes under
\* the name afterwards; and what a connection is written is in put order.
C9_SurvivesDisconnect ==
    /\ [][\A c \in Conns :
             Disconnect(c)
                => /\ message_queue' = message_queue
                   /\ Len(queues') = Len(queues)
                   /\ \A q \in 1..Len(queues) :
                         queues'[q].items = queues[q].items]_vars
    /\ [](\A i \in Ids :
             sent[i].live = {}
                => \/ InMailbox(i)
                   \/ \E c \in Holders(sent[i].target) \ sent[i].before :
                         WrittenTo(i, c))
    /\ [](\A c \in Conns : Increasing(IdsOf(out[c])))

(* -------------------------------- C10 --------------------------------- *)
\* C10: remove_client(N) removes N's entry with its queued messages, leaves
\* every other entry, every handler and every writer task as they are, changes
\* nothing when N has no entry, and no writer task of a live connection is
\* ended on account of the removal.
C10_RemoveClient ==
    [][/\ \A name \in RemoveNames :
             RemoveClient(name)
                => /\ DOMAIN message_queue' = DOMAIN message_queue \ {name}
                   /\ \A n \in DOMAIN message_queue' :
                         /\ message_queue'[n] = message_queue[n]
                         /\ queues'[message_queue'[n]] = queues[message_queue[n]]
                   /\ hs' = hs
                   /\ wr' = wr
                   /\ must_cancel' = must_cancel
       /\ \A c \in Conns :
             (hs[c] = "active" /\ Running(c)) => wr'[c] # "nokey"]_vars

(* -------------------------------- C11 --------------------------------- *)
\* a step that references a name (a handshake under it, a frame addressed to
\* it) creates a queue only when the registry has none for the name, never
\* replaces a queue the registry holds, and leaves the referrer running
NoErrorNoReplace ==
    /\ \A n \in DOMAIN message_queue :
          n \in DOMAIN message_queue' /\ message_queue'[n] = message_queue[n]
    /\ Len(queues') - Len(queues)
          = Cardinality(DOMAIN message_queue' \ DOMAIN message_queue)
    /\ \A c \in Conns, line \in HandshakeLines :
          Handshake(c, line) => hs'[c] = "active" /\ wr'[c] = "new"
    /\ \A c \in Conns, line \in DataLines :
          ReadFrame(c, line) => hs'[c] = "active"

\* C11: get-or-create is atomic under every interleaving: each name has exactly
\* one queue, created at its first reference; every handshake and every put
\* uses the queue the registry holds for the name; no put message is outside
\* that queue unless it was written to a holder of the name; and no reference
\* ends its referrer.
C11_AtomicGetOrCreate ==
    /\ [](/\ Len(queues) = Cardinality(DOMAIN message_queue)
          /\ \A i \in Ids :
                /\ sent[i].target \in DOMAIN message_queue
                /\ sent[i].queue = message_queue[sent[i].target]
                /\ \/ InMailbox(i)
                   \/ \E c \in Holders(sent[i].target) : WrittenTo(i, c)
          /\ \A c \in Conns :
                wr[c] \in {"get", "woken"} => wq[c] = message_queue[client[c]])
    /\ [][NoErrorNoReplace]_vars

\* two connections took the same name and a frame was addressed to it: three
\* references, one queue, and the frame was delivered
C11_Witness ==
    \E c, d \in Handshaken : \E i \in Ids :
        /\ c # d
        /\ client[c] = client[d]
        /\ sent[i].target = client[c]
        /\ WrittenTo(i, c)
        /\ Len(queues) = Cardinality(DOMAIN message_queue)

(* -------------------------------- C12 --------------------------------- *)
\* the positions of queues at which message i is held
QueuePlaces(i) ==
    UNION {{<<q, k>> : k \in {k \in 1..Len(queues[q].items) :
                                 queues[q].items[k].id = i}} :
           q \in 1..Len(queues)}

\* the positions of streams at which message i was written
StreamPlaces(i) ==
    UNION {{<<c, k>> : k \in {k \in 1..Len(out[c]) : out[c][k].id = i}} :
           c \in Conns}

\* C12: every message that was put is in exactly one place: at one position of
\* the mailbox it was put into, or at one position of the stream of one
\* connection bound to its target; so it was dequeued by at most one writer
\* task and written at most once, also when two writers share a mailbox.
C12_ConsumedOnce ==
    \A i \in Ids :
        /\ Cardinality(QueuePlaces(i)) + Cardinality(StreamPlaces(i)) = 1
        /\ \A p \in QueuePlaces(i) : p[1] = sent[i].queue
        /\ \A p \in StreamPlaces(i) : client[p[1]] = sent[i].target

\* two connections bound to the same name raced for their mailbox and each
\* was written one of its two messages
C12_Witness ==
    \E c, d \in Handshaken :
        /\ c # d
        /\ client[c] = client[d]
        /\ Len(out[c]) = 1
        /\ Len(out[d]) = 1
        /\ out[c][1].id # out[d][1].id

(* -------------------------------- C15 --------------------------------- *)
\* the reader, the writer and the handler of connection d can take the steps
\* their input allows
CanProceed(d) ==
    /\ hs[d] = "handshake" => ENABLED Handshake(d, <<"a", NL>>)
    /\ (hs[d] = "active" /\ Len(sent) < MaxSend)
          => ENABLED ReadFrame(d, <<"a", COLON, "y", NL>>)
    /\ hs[d] = "active" => ENABLED ReadEnd(d)
    /\ (wr[d] \in {"new", "drain"} /\ ~must_cancel[d]) => ENABLED WriterLoop(d)
    /\ (wr[d] = "woken" /\ ~must_cancel[d]) => ENABLED WriterWake(d)

\* connection c is accepted and has not sent its name line
Silent(c) == hs[c] = "handshake"

\* C15: a peer that has connected and not sent its name line has no name, no
\* writer task and no getter in any queue; accepting it creates no mailbox;
\* and while it stays silent every other connection can handshake, enqueue
\* and be delivered to, and no step of another connection touches it.
C15_SilentPeer ==
    /\ [](\A c \in Conns :
             Silent(c)
                => /\ client[c] = <<>>
                   /\ wr[c] = "none"
                   /\ out[c] = <<>>
                   /\ \A q \in 1..Len(queues) : \A k \in 1..Len(queues[q].getters) :
                         queues[q].getters[k] # c
                   /\ \A i \in Ids : sent[i].from # c
                   /\ \A d \in Conns \ {c} : CanProceed(d))
    /\ [][\A c \in Conns :
             /\ Accept(c) => (message_queue' = message_queue /\ queues' = queues
                                /\ wr' = wr)
             /\ (Silent(c) /\ hs'[c] = "handshake")
                   => (wr'[c] = wr[c] /\ client'[c] = client[c])]_vars

\* connection 1 never sent its name line while connection 2 handshook, sent a
\* frame to its own name and was written it
C15_Witness ==
    \E c, d \in Conns :
        /\ c < d
        /\ Silent(c)
        /\ hs[d] = "active"
        /\ Len(out[d]) = 1
        /\ message_queue = (client[d] :> 1)

(* -------------------------------- C20 --------------------------------- *)
\* the handler states of section 4.3 in their order; the handler has ended
\* (CLOSED) when proc_client has returned or raised
Stage(h) ==
    CASE h = "idle" -> 0
      [] h = "handshake" -> 1
      [] h = "active" -> 2
      [] h \in {"closed", "crashed", "failed"} -> 4

Ended(c) == hs[c] \in {"closed", "crashed", "failed"}

\* C20: a handler never moves backwards through its states and is ACTIVE
\* before it closes; when it has ended, its writer task, if one was started,
\* has finished, and its stream has been closed exactly once.
C20_Lifecycle ==
    /\ [][\A c \in Conns :
             /\ Stage(hs'[c]) >= Stage(hs[c])
             /\ hs'[c] = "closed" => hs[c] \in {"active", "closed"}]_vars
    /\ [](\A c \in Conns :
             Ended(c) => (~Running(c) /\ ~must_cancel[c] /\ closes[c] = 1))

(* -------------------------------- C13 --------------------------------- *)
\* the calls of send() and of receive(), in call order
Sends == SelectSeq(cl_calls, LAMBDA r : r.op = "send")
Receives == SelectSeq(cl_calls, LAMBDA r : r.op = "receive")

\* the frames target:body\n of the send() calls that reported success
FramesReportedSent ==
    LET ok == SelectSeq(Sends, LAMBDA r : r.ret = "True")
    IN  [k \in 1..Len(ok) |-> ok[k].user \o <<COLON>> \o ok[k].message \o <<NL>>]

\* C13: send() never raises: it returns True or False; it returns True exactly
\* when the write and the flush completed; on a client that never connected
\* or whose stream is broken it returns False; and the stream carries exactly
\* the frames target:body\n of the calls that returned True, in call order.
C13_SendReports ==
    /\ \A k \in 1..Len(Sends) :
          /\ Sends[k].ret \in {"True", "False"}
          /\ Sends[k].ret = "True" <=> Sends[k].flushed
          /\ (Sends[k].conn = "none" \/ Sends[k].end = "exc")
                => Sends[k].ret = "False"
    /\ cl_wire = FramesReportedSent

\* one send() reported success, with its frame on the stream, although the
\* server side had already closed; a later send() on the broken stream
\* reported failure; and a send() before connect() reported failure
C13_Witness ==
    /\ Len(Sends) = 3
    /\ Sends[1].conn = "none" /\ Sends[1].ret = "False"
    /\ Sends[2].end = "eof" /\ Sends[2].ret = "True"
    /\ Sends[3].end = "exc" /\ Sends[3].ret = "False"
    /\ cl_wire = << <<"b", COLON, "h", COLON, "i", NL>> >>

(* -------------------------------- C14 --------------------------------- *)
\* the receive() calls that returned a value
Values == SelectSeq(Receives, LAMBDA r : r.ret.kind = "str")

\* everything the server side delivered, as one text
Delivered ==
    LET RECURSIVE Cat(_)
        Cat(chunks) == IF chunks = <<>> THEN <<>>
                       ELSE Head(chunks) \o Cat(Tail(chunks))
    IN  Cat(cl_fed)

\* the frames of a text: its newline-terminated lines, in order
RECURSIVE FramesOf(_)
FramesOf(b) ==
    IF NewlineAt(b) = 0 THEN <<>>
    ELSE <<SubSeq(b, 1, NewlineAt(b))>>
            \o FramesOf(SubSeq(b, NewlineAt(b) + 1, Len(b)))

\* C14: the values receive() returns are, in order, the frames delivered,
\* each without its newline (the text sender:body the caller splits at the
\* first colon); receive() returns None when the stream is at its end or
\* broken; and after a receive() that returned None every receive() returns
\* None.
C14_ReceiveEndOfStream ==
    /\ \A j \in 1..Len(Values) :
          /\ j <= Len(FramesOf(Delivered))
          /\ FramesOf(Delivered)[j] = Values[j].ret.val \o <<NL>>
    /\ \A k \in 1..Len(Receives) :
          (Receives[k].end = "exc"
             \/ (Receives[k].end = "eof" /\ Receives[k].buffer = <<>>))
                => Receives[k].ret = None
    /\ \A j, k \in 1..Len(Receives) :
          (j < k /\ Receives[j].ret = None) => Receives[k].ret = None

(* -------------------------------- C16 --------------------------------- *)
\* the keys both dictionaries hold with different values
Differing == {k \in DOMAIN dict_1 \cap DOMAIN dict_2 : dict_1[k] # dict_2[k]}

\* C16: what compare_dicts(d1, d2) returns has exactly the keys that are in
\* both dictionaries with different values, each mapped to the pair
\* [d1[key], d2[key]] whichever dictionary is the shorter; and the call leaves
\* both dictionaries as they were.
C16_CompareDicts ==
    /\ [](compared
            => /\ DOMAIN differences = Differing
               /\ \A k \in Differing : differences[k] = <<dict_1[k], dict_2[k]>>)
    /\ [][CompareDicts => (dict_1' = dict_1 /\ dict_2' = dict_2)]_vars

\* the first dictionary is the longer one; one shared key has equal values,
\* one has different values and one key is in the first dictionary only
C16_Witness ==
    /\ compared
    /\ Cardinality(DOMAIN dict_1) > Cardinality(DOMAIN dict_2)
    /\ Differing # {}
    /\ DOMAIN differences = Differing
    /\ \E k \in DOMAIN dict_1 \cap DOMAIN dict_2 : dict_1[k] = dict_2[k]
    /\ DOMAIN dict_1 \ DOMAIN dict_2 # {}

(* -------------------------------- C17 --------------------------------- *)
\* the entries of l within the documented range of 1 to 254, in their order
InRange(l) == SelectSeq(l, LAMBDA num : 1 <= num /\ num <= 254)

\* C17: assigning a list or a tuple stores a copy of it, assigning a value of
\* another type leaves the stored list as it is, and a read returns the stored
\* list without its entries outside 1..254, the others in their order.
C17_IgnoreList ==
    [][/\ \A ignore_list \in IgnoreInputs :
             AssignIgnoreList(ignore_list)
                => ip_ignore_list' = IF ignore_list.type \in {"list", "tuple"}
                                     THEN ignore_list.items
                                     ELSE ip_ignore_list
       /\ ReadIgnoreList => ignore_read' = InRange(ip_ignore_list)]_vars

(* -------------------------------- C18 --------------------------------- *)
\* C18: whatever was assigned, retries reads back as 1, 2 or 3, and an
\* assignment of any other number leaves it at 1.
C18_Retries ==
    /\ [](retries \in {1, 2, 3})
    /\ [][\A number \in RetryInputs :
             SetRetries(number)
                => retries' = IF number \in {1, 2, 3} THEN number ELSE 1]_vars

(* -------------------------------- C19 --------------------------------- *)
\* the instrument operations issued by the first k calls of send()
IssuedBy(k) ==
    Cardinality({j \in 1..k : dev_calls[j].issued})

\* C19: send() of a command string or of a Msg object always returns a Msg
\* object; a message whose response is no longer PROCESSING is returned as it
\* is with nothing issued to the instrument; with no device available the
\* response is the comm error; otherwise exactly one operation is issued: a
\* query for a command ending in '?', a write for any other.
C19_DeviceSend ==
    /\ Len(dev_log) = IssuedBy(Len(dev_calls))
    /\ \A k \in 1..Len(dev_calls) :
          LET r == dev_calls[k]
          IN  /\ r.kind = "Msg"
              /\ r.pre # PROCESSING => (r.response = r.pre /\ ~r.issued)
              /\ (r.pre = PROCESSING /\ ~r.available)
                    => (r.response = COM_ERR /\ ~r.issued)
              /\ (r.pre = PROCESSING /\ r.available)
                    => /\ r.issued
                       /\ dev_log[IssuedBy(k)].cmd = r.cmd
                       /\ dev_log[IssuedBy(k)].op
                            = IF r.cmd[Len(r.cmd)] = "?" THEN "query" ELSE "write"

(* -------------------------------- C21 --------------------------------- *)
\* the line minus its trailing newline
StripNewline(line) ==
    IF line # <<>> /\ line[Len(line)] = NL THEN DropLast(line) ELSE line

\* the handshake of connection c under name: the name is bound, a mailbox the
\* registry holds for it is kept with its items, and otherwise an empty one is
\* created; no other entry changes
BindsName(c, name) ==
    /\ client'[c] = name
    /\ name \in DOMAIN message_queue
          => message_queue' = message_queue /\ queues' = queues
    /\ name \notin DOMAIN message_queue
          => /\ DOMAIN message_queue' = DOMAIN message_queue \cup {name}
             /\ \A n \in DOMAIN message_queue : message_queue'[n] = message_queue[n]
             /\ queues' = Append(queues, NewQueue)
             /\ message_queue'[name] = Len(queues')

\* C21: at handshake the first line read, minus its trailing newline, becomes
\* the connection's bound name and is registered by get-or-create: a mailbox
\* the name already has is kept with its queued messages, otherwise an empty
\* one is created; the bound name never changes afterwards.
C21_HandshakeName ==
    [][/\ \A c \in Conns, line \in HandshakeLines :
             Handshake(c, line) => BindsName(c, StripNewline(line))
       /\ \A c \in Conns, line \in HandshakeEnds :
             HandshakeEof(c, line) => BindsName(c, StripNewline(line))
       /\ \A c \in Handshaken : client'[c] = client[c]]_vars

(* -------------------------------- C22 --------------------------------- *)
\* f is one complete line: it ends with a newline and holds no other
CompleteLine(f) ==
    /\ f # <<>>
    /\ f[Len(f)] = NL
    /\ \A k \in 1..(Len(f) - 1) : f[k] # NL

\* the text the peer of connection c receives: what the writer wrote, in order
Stream(c) ==
    LET RECURSIVE Cat(_)
        Cat(ms) == IF ms = <<>> THEN <<>> ELSE Head(ms).frame \o Cat(Tail(ms))
    IN  Cat(out[c])

\* C22: every frame a writer writes is one complete line, whatever line the
\* sender's reader obtained (a line cut off by end-of-stream included), so the
\* lines a peer receives are the messages written to it, one line each.
C22_CompleteFrames ==
    \A c \in Conns :
        /\ \A k \in 1..Len(out[c]) : CompleteLine(out[c][k].frame)
        /\ FramesOf(Stream(c)) = [k \in 1..Len(out[c]) |-> out[c][k].frame]

(* -------------------------------- C23 --------------------------------- *)
\* the messages queued in the mailbox the registry holds for the name of c
OwnMailbox(c) == queues[message_queue[client[c]]].items

\* message m leaves nobody's mailbox in this step, or a connection bound to
\* the name of c whose handler is running receives it
KeptFor(c, m) ==
    \/ \E k \in 1..Len(OwnMailbox(c)') : OwnMailbox(c)'[k] = m
    \/ \E d \in Conns :
          /\ hs[d] = "active"
          /\ client[d] = client[c]
          /\ out'[d] = Append(out[d], m)

\* C23: a write or flush error in the writer of connection c ends that
\* writer's loop and nothing else: the handler and every other task stay
\* where they are and no transport is closed; the writer writes nothing more;
\* the reader of c can still read a frame and enqueue it; and the messages in
\* the mailbox of c's name stay there until a connection bound to that name
\* with a running handler takes them.
C23_WriterErrorIsolated ==
    /\ [][\A c \in Conns :
             DrainError(c)
                => /\ wr' = [wr EXCEPT ![c] = "wrerr"]
                   /\ hs' = hs
                   /\ closes' = closes
                   /\ message_queue' = message_queue
                   /\ queues' = queues]_vars
    /\ [][\A c \in Conns :
             wr[c] = "wrerr" => wr'[c] = "wrerr" /\ out'[c] = out[c]]_vars
    /\ [](\A c \in Conns :
             (wr[c] = "wrerr" /\ hs[c] = "active" /\ Len(sent) < MaxSend)
                => \A line \in DataLines : ENABLED ReadFrame(c, line))
    /\ [][\A c \in Conns :
             wr[c] = "wrerr"
                => \A k \in 1..Len(OwnMailbox(c)) : KeptFor(c, OwnMailbox(c)[k])]_vars

(* -------------------------------- C24 --------------------------------- *)
\* C24: a message addressed to a name is only ever written to a connection
\* bound to that name, under every interleaving of handshakes, enqueues,
\* remove_client calls and disconnects.
C24_OnlyToTarget ==
    \A c \in Conns : \A k \in 1..Len(out[c]) :
        sent[out[c][k].id].target = client[c]

\* remove_client was called, and connections bound to two different names
\* were each written a message
C24_Witness ==
    /\ nremoved > 0
    /\ \E c, d \in Conns :
          /\ client[c] # client[d]
          /\ out[c] # <<>>
          /\ out[d] # <<>>

(* -------------------------------- C25 --------------------------------- *)
\* message i waits in a queue the writer of c takes its next message from:
\* the queue it is suspended on, or the one its next lookup finds
Pending(i, c) ==
    \E q \in 1..Len(queues) :
        /\ \E k \in 1..Len(queues[q].items) : queues[q].items[k].id = i
        /\ \/ wr[c] \in {"get", "woken"} /\ wq[c] = q
           \/ /\ wr[c] \in {"new", "drain"}
              /\ client[c] \in DOMAIN message_queue
              /\ message_queue[client[c]] = q

\* the writer of c will run again without a new put: it was woken, or the
\* queue it is suspended on still holds a message
WillWake(c) ==
    \/ wr[c] = "woken"
    \/ wr[c] = "get" /\ queues[wq[c]].items # <<>>

\* message i, sent to the name of c, can no longer reach c: it was neither
\* written to c nor to another connection of that name, and the writer of c
\* neither takes from the queue that holds it nor will run again
Stranded(i, c) ==
    /\ ~WrittenTo(i, c)
    /\ ~Pending(i, c)
    /\ ~WillWake(c)
    /\ ~\E d \in Conns \ {c} : client[d] = client[c] /\ WrittenTo(i, d)

\* C25: when remove_client(N) was called while a connection bound to N was
\* active with its writer suspended on a dequeue, a message another client
\* sends to N afterwards is delivered to that connection while it stays open:
\* at no moment is the message out of reach of that connection's writer
\* (unless a write to the connection failed).
C25_DeliveredAfterRemove ==
    \A i \in Ids : \A c \in sent[i].orphaned :
        (hs[c] = "active" /\ wr[c] # "wrerr" /\ sent[i].from # c)
           => ~Stranded(i, c)

(* -------------------------------- C26 --------------------------------- *)
\* the list after one requested action: an add puts the item at the end, a
\* remove takes out the element at its index
Apply(l, action) ==
    IF action[1] = "add" THEN Append(l, action[2])
    ELSE IF HasIndex(l, action[2]) THEN Pop(l, action[2]) ELSE l

\* the result of applying the actions in order to the list l
RECURSIVE ApplyAll(_, _)
ApplyAll(l, actions) ==
    IF actions = <<>> THEN l
    ELSE ApplyAll(Apply(l, Head(actions)), Tail(actions))

\* the action the thread has taken and not completed
InFlight == IF tq_pc \in {"add", "remove", "dead"} THEN <<tq_action>> ELSE <<>>

\* C26: the actions are applied one at a time in the order add() and remove()
\* were called: the requests are, in call order, those applied, then the one
\* being applied, then those waiting, and the visible queue is the result of
\* applying the applied ones to the empty list; get(i) returns the element at
\* index i of the visible queue (a negative i counts from its end), or None
\* when the queue has no such index, and changes nothing but its own result.
C26_OrderedPrefix ==
    /\ [](/\ tq_done <= Len(tq_requests)
          /\ tq_requests
                = SubSeq(tq_requests, 1, tq_done) \o InFlight \o tq_action_queue
          /\ tq_queue = ApplyAll(<<>>, SubSeq(tq_requests, 1, tq_done))
          /\ \A k \in 1..Len(tq_gets) :
                LET g == tq_gets[k]
                IN  /\ \E n \in 0..tq_done :
                          g.queue = ApplyAll(<<>>, SubSeq(tq_requests, 1, n))
                    /\ g.ret = IF HasIndex(g.queue, g.number)
                               THEN Item(g.queue[Position(g.queue, g.number)])
                               ELSE NoItem)
    /\ [][\A number \in Indexes :
             Get(number)
                => UNCHANGED <<tq_queue, tq_action_queue, tq_pc, tq_action>>]_vars

\* add, remove and add were requested and all applied, and get() returned
\* an item once and None once
C26_Witness ==
    /\ tq_done = MaxRequests
    /\ \E j, k \in 1..MaxRequests :
          j < k /\ tq_requests[j][1] = "add" /\ tq_requests[k][1] = "remove"
    /\ \E j, k \in 1..Len(tq_gets) :
          tq_gets[j].ret = NoItem /\ tq_gets[k].ret # NoItem

(* -------------------------------- C27 --------------------------------- *)
\* the action thread can take a step
CanStep ==
    \/ ENABLED ActionThread
    \/ ENABLED Wake
    \/ ENABLED LongProcessAdd
    \/ ENABLED LongProcessRemove

\* C27: whatever add() and remove(index) requests are made, a remove on an
\* empty queue or with an index past its end included, the action thread
\* keeps running, so that every request is taken and processed: the thread
\* has not ended, it can always take its next step, and every request made
\* is processed, being processed, or waiting in the action queue.
C27_ThreadKeepsRunning ==
    /\ tq_pc # "dead"
    /\ CanStep
    /\ Len(tq_requests) = tq_done + Len(InFlight) + Len(tq_action_queue)

=============================================================================
